---- MODULE Spec2Model ----
(***************************************************************************)
(* The Playwright PDF microservice (server.js, diagnostic build): four     *)
(* Express handlers, the render recipe renderPdfFromHtml, and the part of  *)
(* the browser engine the recipe drives (sessions, their page, the page's  *)
(* media, style tags and document).  Every await of the code is one        *)
(* action; the code between two awaits runs in the action of the first.    *)
(***************************************************************************)
EXTENDS Integers, Sequences, FiniteSets, TLC

VARIABLES
    engineUp,   \* whether chromium.launch can succeed on this host
    inbox,      \* the HTTP requests sent to the service, by request id
    reqs,       \* each handler's frame: its position and destructured locals
    browser,    \* the `let browser` bindings, by binding
    sessions,   \* the engine's browser sessions, by the request that launched them
    calls,      \* the engine calls each request made, in order
    printed,    \* what each request's print/capture step rendered
    res         \* the response written to each request

vars == <<engineUp, inbox, reqs, browser, sessions, calls, printed, res>>

\* Number of concurrent requests in Spec.
MaxReqs == 2

(***************************************************************************)
(* JavaScript values carried by a JSON body.                               *)
(***************************************************************************)
Undef == [t |-> "undefined", v |-> ""]
Null == [t |-> "object", v |-> "null"]
Str(s) == [t |-> "string", v |-> s]
Num(s) == [t |-> "number", v |-> s]
JsTrue == [t |-> "boolean", v |-> "true"]
JsFalse == [t |-> "boolean", v |-> "false"]

\* ToBoolean: undefined, null, "", 0 and false are falsy.
Truthy(x) == x \notin {Undef, Null, Str(""), Num("0"), JsFalse}

TypeOf(x) == x.t

\* A destructuring default applies to undefined only.
OrDefault(x, d) == IF x = Undef THEN d ELSE x

Edges == {"top", "right", "bottom", "left"}
Absent == "absent"
NoProps == [e \in Edges |-> Absent]
MarginUndef == [t |-> "undefined", props |-> NoProps]
MarginNull == [t |-> "null", props |-> NoProps]
MarginObj(p) == [t |-> "object", props |-> p]

\* The margin literal of page.pdf before the spread.
DefaultMargin == [top |-> "12mm", right |-> "12mm", bottom |-> "16mm", left |-> "12mm"]

\* Variant with the spread first, so that the literal's edges win.
MergeMarginDefaultsWin(m) ==
    [e \in Edges |-> DefaultMargin[e]]

\* { top: "12mm", right: "12mm", bottom: "16mm", left: "12mm", ...margin }:
\* the own properties of margin overwrite the literal's; spreading null or
\* undefined adds nothing.
MergeMargin(m) ==
    [e \in Edges |->
        IF m.t = "object" /\ m.props[e] # Absent THEN m.props[e] ELSE DefaultMargin[e]]

VISIBILITY_CSS == "VISIBILITY_CSS"
SYSTEM_FONT_CSS == "SYSTEM_FONT_CSS"

SelftestHtml == Str("<h1>Selftest OK</h1>")

\* What `let browser;` and `page` hold before they are assigned.
NoSession == 0

(***************************************************************************)
(* Requests.  A body is the JSON object express.json parsed, or undefined  *)
(* when the request carried none.                                          *)
(***************************************************************************)
NoBody ==
    [t |-> "undefined", html |-> Undef, baseURL |-> Undef, format |-> Undef,
     margin |-> MarginUndef, filename |-> Undef, forceSystemFonts |-> Undef]

EmptyBody == [NoBody EXCEPT !.t = "object"]

HtmlValues == {Undef, Null, Str(""), Num("42"), Str("<p>doc</p>")}

Margins ==
    {MarginUndef, MarginNull} \cup {MarginObj(p) : p \in [Edges -> {Absent, "5mm"}]}

Filenames == {Undef, Str("report.pdf"), Str("a\nb.pdf")}

Formats == {Undef, Str("A4"), Str("Bogus")}

\* The bodies a client may post to /pdf.
PdfBodies ==
    {NoBody} \cup
    [t : {"object"}, html : HtmlValues, baseURL : {Undef, Str("http://assets/")},
     format : Formats, margin : Margins, filename : Filenames,
     forceSystemFonts : {Undef, JsTrue}]

\* The bodies a client may post to /pdf-debug, which reads three fields.
DebugBodies ==
    {NoBody} \cup
    [t : {"object"}, html : HtmlValues, baseURL : {Undef, Str("http://assets/")},
     format : {Undef}, margin : {MarginUndef}, filename : {Undef},
     forceSystemFonts : {Undef, JsTrue}]

Msg(path, body) == [path |-> path, body |-> body]

RichRequests ==
    {Msg("/healthz", NoBody), Msg("/selftest", NoBody)}
        \cup {Msg("/pdf", b) : b \in PdfBodies}
        \cup {Msg("/pdf-debug", b) : b \in DebugBodies}

\* The document request r posts when several requests run at once.
Doc(r) == Str("<p>doc " \o ToString(r) \o "</p>")

ConcurrentRequests(r) ==
    {Msg("/healthz", NoBody), Msg("/selftest", NoBody), Msg("/pdf", NoBody),
     Msg("/pdf", [EmptyBody EXCEPT !.html = Doc(r)]),
     Msg("/pdf-debug", [EmptyBody EXCEPT !.html = Doc(r)])}

(***************************************************************************)
(* Records.                                                                *)
(***************************************************************************)
\* What a print or capture step rendered: the page as it stood and the options.
NoSnap ==
    [kind |-> "none", content |-> Undef, media |-> "none", styles |-> {},
     margin |-> NoProps, format |-> Undef]

IdleFrame ==
    [pc |-> "idle", html |-> Undef, baseURL |-> Undef, format |-> Undef,
     margin |-> MarginUndef, filename |-> Undef, forceSystemFonts |-> Undef,
     page |-> NoSession, err |-> "", pdf |-> NoSnap, unhandled |-> FALSE]

NoSess ==
    [state |-> "none", page |-> FALSE, baseURL |-> Undef, media |-> "none",
     styles |-> {}, content |-> Undef, users |-> {}, closedBy |-> {}]

NoRes ==
    [n |-> 0, status |-> 0, ctype |-> "", disp |-> "", kind |-> "none",
     error |-> "", details |-> "", text |-> "", payload |-> NoSnap]

Ids == DOMAIN inbox

InitWith(in) ==
    /\ engineUp \in BOOLEAN
    /\ inbox = in
    /\ reqs = [r \in DOMAIN in |-> IdleFrame]
    /\ browser = [r \in DOMAIN in |-> NoSession]
    /\ sessions = [r \in DOMAIN in |-> NoSess]
    /\ calls = [r \in DOMAIN in |-> << >>]
    /\ printed = [r \in DOMAIN in |-> NoSnap]
    /\ res = [r \in DOMAIN in |-> NoRes]

\* MaxReqs requests in flight at once, each with its own document.
Init ==
    \E in \in [1..MaxReqs -> UNION {ConcurrentRequests(r) : r \in 1..MaxReqs}] :
        /\ \A r \in 1..MaxReqs : in[r] \in ConcurrentRequests(r)
        /\ InitWith(in)

\* One request, drawn from every shape of body.
InitRender ==
    \E m \in RichRequests : InitWith([r \in {1} |-> m])

(***************************************************************************)
(* Helpers shared by the handlers.                                         *)
(***************************************************************************)
\* req.body || {}
BodyOf(r) == IF inbox[r].body.t = "undefined" THEN EmptyBody ELSE inbox[r].body

\* Variant that tests presence only.
InvalidHtmlMissingOnly(html) == html = Undef

\* !html || typeof html !== "string"
InvalidHtml(html) == ~Truthy(html) \/ TypeOf(html) # "string"

\* Variant with `browser` hoisted to module scope: one binding for all.
BrowserVarShared(r) == 1

\* The binding of `let browser` that request r's handler reads and writes:
\* a local of the call, so one per request.
BrowserVar(r) == r

Logged(r, op, ok) == calls' = [calls EXCEPT ![r] = Append(@, [op |-> op, ok |-> ok])]

\* res.status(code).json({ error, details }): res.json leaves a Content-Type
\* that is already set.
JsonError(old, code, error, details) ==
    [old EXCEPT !.n = @ + 1, !.status = code,
                !.ctype = IF @ = "" THEN "application/json" ELSE @,
                !.kind = "json-error", !.error = error, !.details = details]

ErrorName(path) ==
    CASE path = "/pdf" -> "PDF rendering failed"
      [] path = "/selftest" -> "Selftest failed"
      [] OTHER -> "pdf-debug failed"

\* `inline; filename="${filename}"`
Disposition(filename) == "inline; filename=\"" \o filename.v \o "\""

\* res.setHeader rejects a value holding a character no header may carry;
\* of the file names the requests carry, the one with a line feed.
HeaderValueOk(filename) == filename # Str("a\nb.pdf")

\* Variant that sets Content-Type before it looks at the outcome.
PdfResponseHeadersFirst(r, err, pdf) ==
    LET typed == [res[r] EXCEPT !.ctype = "application/pdf"] IN
    IF err # ""
    THEN JsonError(typed, 500, ErrorName(inbox[r].path), err)
    ELSE IF ~HeaderValueOk(reqs[r].filename)
    THEN JsonError(typed, 500, ErrorName(inbox[r].path),
                   "Invalid character in header content")
    ELSE [typed EXCEPT !.n = @ + 1, !.status = 200,
                       !.disp = Disposition(reqs[r].filename),
                       !.kind = "pdf", !.payload = pdf]

\* The /pdf and /selftest handlers after `await renderPdfFromHtml(...)`, which
\* returned reqs[r].pdf (err = "") or threw err: on a value, the two headers
\* and res.status(200).send(pdf); on an error (thrown by the render or by
\* setHeader), res.status(500).json({ error, details }).
PdfResponse(r, err, pdf) ==
    LET typed == [res[r] EXCEPT !.ctype = "application/pdf"] IN
    IF err # ""
    THEN JsonError(res[r], 500, ErrorName(inbox[r].path), err)
    ELSE IF ~HeaderValueOk(reqs[r].filename)
    THEN JsonError(typed, 500, ErrorName(inbox[r].path),
                   "Invalid character in header content")
    ELSE [typed EXCEPT !.n = @ + 1, !.status = 200,
                       !.disp = Disposition(reqs[r].filename),
                       !.kind = "pdf", !.payload = pdf]

\* Variant without the finally block: a failed step never closes.
ThrowNoFinally(r, msg) ==
    IF inbox[r].path = "/pdf-debug"
    THEN /\ res' = [res EXCEPT ![r] = JsonError(@, 500, ErrorName("/pdf-debug"), msg)]
         /\ reqs' = [reqs EXCEPT ![r].pc = "done"]
    ELSE /\ reqs' = [reqs EXCEPT ![r].err = msg, ![r].pc = "done"]
         /\ res' = [res EXCEPT ![r] = PdfResponse(r, msg, NoSnap)]

\* An engine call of request r threw msg.  The finally block runs: with
\* browser set, the close is awaited; with browser unset, nothing is, and the
\* error reaches the catch.  In /pdf-debug the catch has answered 500 before
\* the finally block; in /pdf and /selftest the catch is the caller's and
\* answers once renderPdfFromHtml has finished.
Throw(r, msg) ==
    IF inbox[r].path = "/pdf-debug"
    THEN /\ res' = [res EXCEPT ![r] = JsonError(@, 500, ErrorName("/pdf-debug"), msg)]
         /\ reqs' = [reqs EXCEPT ![r].pc =
                        IF browser[BrowserVar(r)] # NoSession THEN "close" ELSE "done"]
    ELSE IF browser[BrowserVar(r)] # NoSession
    THEN /\ reqs' = [reqs EXCEPT ![r].err = msg, ![r].pc = "close"]
         /\ UNCHANGED res
    ELSE /\ reqs' = [reqs EXCEPT ![r].err = msg, ![r].pc = "done"]
         /\ res' = [res EXCEPT ![r] = PdfResponse(r, msg, NoSnap)]

(***************************************************************************)
(* The handlers, up to their first await.                                  *)
(***************************************************************************)
\* Variant that reports the engine's availability.
HealthzChecksEngine(r) ==
    /\ reqs[r].pc = "idle"
    /\ inbox[r].path = "/healthz"
    /\ reqs' = [reqs EXCEPT ![r].pc = "done"]
    /\ res' = [res EXCEPT ![r] =
                  [@ EXCEPT !.n = @ + 1, !.status = IF engineUp THEN 200 ELSE 503,
                            !.ctype = "text/html", !.kind = "text",
                            !.text = IF engineUp THEN "ok" ELSE "engine down"]]
    /\ UNCHANGED <<engineUp, inbox, browser, sessions, calls, printed>>

\* app.get("/healthz")
Healthz(r) ==
    /\ reqs[r].pc = "idle"
    /\ inbox[r].path = "/healthz"
    /\ reqs' = [reqs EXCEPT ![r].pc = "done"]
    /\ res' = [res EXCEPT ![r] =
                  [@ EXCEPT !.n = @ + 1, !.status = 200, !.ctype = "text/html",
                            !.kind = "text", !.text = "ok"]]
    /\ UNCHANGED <<engineUp, inbox, browser, sessions, calls, printed>>

\* app.post("/pdf"): destructure the body, validate html, call renderPdfFromHtml.
PostPdf(r) ==
    /\ reqs[r].pc = "idle"
    /\ inbox[r].path = "/pdf"
    /\ LET b == BodyOf(r) IN
        IF InvalidHtml(b.html)
        THEN /\ res' = [res EXCEPT ![r] =
                           JsonError(@, 400, "Missing or invalid 'html' field", "")]
             /\ reqs' = [reqs EXCEPT ![r].pc = "done"]
        ELSE /\ reqs' = [reqs EXCEPT ![r] =
                    [@ EXCEPT !.pc = "launch",
                              !.html = b.html,
                              !.baseURL = OrDefault(b.baseURL, Null),
                              !.format = OrDefault(b.format, Str("Letter")),
                              !.margin = IF b.margin = MarginUndef
                                         THEN MarginObj(NoProps) ELSE b.margin,
                              !.filename = OrDefault(b.filename, Str("document.pdf")),
                              !.forceSystemFonts = OrDefault(b.forceSystemFonts, JsFalse)]]
             /\ UNCHANGED res
    /\ UNCHANGED <<engineUp, inbox, browser, sessions, calls, printed>>

\* app.get("/selftest"): the built-in document, with renderPdfFromHtml's defaults.
GetSelftest(r) ==
    /\ reqs[r].pc = "idle"
    /\ inbox[r].path = "/selftest"
    /\ reqs' = [reqs EXCEPT ![r] =
            [@ EXCEPT !.pc = "launch",
                      !.html = SelftestHtml,
                      !.baseURL = Undef,
                      !.format = Str("Letter"),
                      !.margin = MarginObj(NoProps),
                      !.filename = Str("selftest.pdf"),
                      !.forceSystemFonts = JsTrue]]
    /\ UNCHANGED <<engineUp, inbox, browser, sessions, calls, printed, res>>

\* app.post("/pdf-debug"): destructure, validate, start the inline recipe.
PostPdfDebug(r) ==
    /\ reqs[r].pc = "idle"
    /\ inbox[r].path = "/pdf-debug"
    /\ LET b == BodyOf(r) IN
        IF InvalidHtml(b.html)
        THEN /\ res' = [res EXCEPT ![r] =
                           JsonError(@, 400, "Missing or invalid 'html' field", "")]
             /\ reqs' = [reqs EXCEPT ![r].pc = "done"]
        ELSE /\ reqs' = [reqs EXCEPT ![r] =
                    [@ EXCEPT !.pc = "launch",
                              !.html = b.html,
                              !.baseURL = OrDefault(b.baseURL, Null),
                              !.forceSystemFonts = OrDefault(b.forceSystemFonts, JsFalse)]]
             /\ UNCHANGED res
    /\ UNCHANGED <<engineUp, inbox, browser, sessions, calls, printed>>

(***************************************************************************)
(* The render recipe: renderPdfFromHtml for /pdf and /selftest, and the    *)
(* same steps inline in /pdf-debug.  Each action is one awaited engine     *)
(* call with its outcome, and the handler code up to the next await.       *)
(***************************************************************************)
InRecipe(r, pc) == reqs[r].pc = pc /\ inbox[r].path # "/healthz"

\* browser = await launchBrowser()
Launch(r) ==
    /\ InRecipe(r, "launch")
    /\ \E ok \in BOOLEAN :
        /\ ok => engineUp
        /\ Logged(r, "launch", ok)
        /\ IF ok
           THEN /\ sessions' = [sessions EXCEPT ![r] =
                                   [NoSess EXCEPT !.state = "open", !.users = {r}]]
                /\ browser' = [browser EXCEPT ![BrowserVar(r)] = r]
                /\ reqs' = [reqs EXCEPT ![r].pc = "newPage"]
                /\ UNCHANGED res
           ELSE /\ Throw(r, "launch failed")
                /\ UNCHANGED <<sessions, browser>>
    /\ UNCHANGED <<engineUp, inbox, printed>>

\* const page = await browser.newPage({ baseURL: baseURL || undefined })
NewPage(r) ==
    /\ InRecipe(r, "newPage")
    /\ LET s == browser[BrowserVar(r)] IN
       \E ok \in BOOLEAN :
        /\ ok => sessions[s].state = "open"
        /\ Logged(r, "newPage", ok)
        /\ IF ok
           THEN /\ sessions' = [sessions EXCEPT ![s] =
                        [@ EXCEPT !.page = TRUE,
                                  !.baseURL = IF Truthy(reqs[r].baseURL)
                                              THEN reqs[r].baseURL ELSE Undef,
                                  !.users = @ \cup {r}]]
                /\ reqs' = [reqs EXCEPT ![r].pc = "emulateMedia", ![r].page = s]
                /\ UNCHANGED res
           ELSE /\ Throw(r, "newPage failed")
                /\ sessions' = [sessions EXCEPT ![s].users = @ \cup {r}]
    /\ UNCHANGED <<engineUp, inbox, browser, printed>>

\* await page.emulateMedia({ media: "screen" })
EmulateMedia(r) ==
    /\ InRecipe(r, "emulateMedia")
    /\ LET s == reqs[r].page IN
       \E ok \in BOOLEAN :
        /\ ok => sessions[s].state = "open"
        /\ Logged(r, "emulateMedia", ok)
        /\ IF ok
           THEN /\ sessions' = [sessions EXCEPT ![s].media = "screen",
                                                ![s].users = @ \cup {r}]
                /\ reqs' = [reqs EXCEPT ![r].pc = "addVisibility"]
                /\ UNCHANGED res
           ELSE /\ Throw(r, "emulateMedia failed")
                /\ sessions' = [sessions EXCEPT ![s].users = @ \cup {r}]
    /\ UNCHANGED <<engineUp, inbox, browser, printed>>

\* await page.addStyleTag({ content: VISIBILITY_CSS }); if (forceSystemFonts) ...
AddVisibilityStyle(r) ==
    /\ InRecipe(r, "addVisibility")
    /\ LET s == reqs[r].page IN
       \E ok \in BOOLEAN :
        /\ ok => sessions[s].state = "open"
        /\ Logged(r, "addStyleTag:VISIBILITY_CSS", ok)
        /\ IF ok
           THEN /\ sessions' = [sessions EXCEPT ![s].styles = @ \cup {VISIBILITY_CSS},
                                                ![s].users = @ \cup {r}]
                /\ reqs' = [reqs EXCEPT ![r].pc =
                               IF Truthy(reqs[r].forceSystemFonts)
                               THEN "addSystemFont" ELSE "setContent"]
                /\ UNCHANGED res
           ELSE /\ Throw(r, "addStyleTag failed")
                /\ sessions' = [sessions EXCEPT ![s].users = @ \cup {r}]
    /\ UNCHANGED <<engineUp, inbox, browser, printed>>

\* await page.addStyleTag({ content: SYSTEM_FONT_CSS })
AddSystemFontStyle(r) ==
    /\ InRecipe(r, "addSystemFont")
    /\ LET s == reqs[r].page IN
       \E ok \in BOOLEAN :
        /\ ok => sessions[s].state = "open"
        /\ Logged(r, "addStyleTag:SYSTEM_FONT_CSS", ok)
        /\ IF ok
           THEN /\ sessions' = [sessions EXCEPT ![s].styles = @ \cup {SYSTEM_FONT_CSS},
                                                ![s].users = @ \cup {r}]
                /\ reqs' = [reqs EXCEPT ![r].pc = "setContent"]
                /\ UNCHANGED res
           ELSE /\ Throw(r, "addStyleTag failed")
                /\ sessions' = [sessions EXCEPT ![s].users = @ \cup {r}]
    /\ UNCHANGED <<engineUp, inbox, browser, printed>>

\* Variant that goes on after a failed load.
SetContentSwallowsFailure(r) ==
    /\ InRecipe(r, "setContent")
    /\ LET s == reqs[r].page IN
       \E out \in {"ok", "error", "timeout"} :
        /\ out = "ok" => sessions[s].state = "open"
        /\ Logged(r, "setContent", out = "ok")
        /\ sessions' = [sessions EXCEPT ![s] =
                [@ EXCEPT !.users = @ \cup {r},
                          !.content = IF out = "error" THEN @ ELSE reqs[r].html,
                          !.styles = IF out = "error" THEN @ ELSE {}]]
        /\ reqs' = [reqs EXCEPT ![r].pc = "fontsReady"]
        /\ UNCHANGED res
    /\ UNCHANGED <<engineUp, inbox, browser, printed>>

\* await page.setContent(html, { waitUntil: "networkidle", timeout: 30000 }):
\* the engine writes html as the page's new document, which replaces the
\* document the page held (and the style tags added to it), then waits for the
\* network to go idle, for 30 s at most.
SetContent(r) ==
    /\ InRecipe(r, "setContent")
    /\ LET s == reqs[r].page IN
       \E out \in {"ok", "error", "timeout"} :
        /\ out = "ok" => sessions[s].state = "open"
        /\ Logged(r, "setContent", out = "ok")
        /\ sessions' = [sessions EXCEPT ![s] =
                [@ EXCEPT !.users = @ \cup {r},
                          !.content = IF out = "error" THEN @ ELSE reqs[r].html,
                          !.styles = IF out = "error" THEN @ ELSE {}]]
        /\ IF out = "ok"
           THEN /\ reqs' = [reqs EXCEPT ![r].pc = "fontsReady"]
                /\ UNCHANGED res
           ELSE Throw(r, IF out = "timeout" THEN "Timeout 30000ms exceeded"
                                            ELSE "setContent failed")
    /\ UNCHANGED <<engineUp, inbox, browser, printed>>

\* Variant without the try/catch around the wait.
FontsReadyFatal(r) ==
    /\ InRecipe(r, "fontsReady")
    /\ LET s == reqs[r].page IN
       \E ok \in BOOLEAN :
        /\ Logged(r, "evaluateHandle", ok)
        /\ sessions' = [sessions EXCEPT ![s].users = @ \cup {r}]
        /\ IF ok
           THEN /\ reqs' = [reqs EXCEPT ![r].pc = "print"]
                /\ UNCHANGED res
           ELSE Throw(r, "evaluateHandle failed")
    /\ UNCHANGED <<engineUp, inbox, browser, printed>>

\* try { await page.evaluateHandle("document.fonts && document.fonts.ready"); } catch (_) {}
FontsReady(r) ==
    /\ InRecipe(r, "fontsReady")
    /\ LET s == reqs[r].page IN
       \E ok \in BOOLEAN :
        /\ Logged(r, "evaluateHandle", ok)
        /\ sessions' = [sessions EXCEPT ![s].users = @ \cup {r}]
        /\ reqs' = [reqs EXCEPT ![r].pc = "print"]
    /\ UNCHANGED <<engineUp, inbox, browser, printed, res>>

\* The paper formats page.pdf accepts, among those the requests carry.
PaperFormats == {Str("Letter"), Str("A4")}

\* What page.pdf renders: the page's document under the emulated media (print
\* when none is emulated), with the options of the call.
PdfOf(r, s) ==
    [kind |-> "pdf", content |-> sessions[s].content,
     media |-> IF sessions[s].media = "screen" THEN "screen" ELSE "print",
     styles |-> sessions[s].styles,
     margin |-> MergeMargin(reqs[r].margin), format |-> reqs[r].format]

\* Variant that answers as soon as the PDF exists, before the close.
PdfRespondsFirst(r) ==
    /\ InRecipe(r, "print")
    /\ inbox[r].path \in {"/pdf", "/selftest"}
    /\ LET s == reqs[r].page IN
       \E ok \in BOOLEAN :
        /\ ok => sessions[s].state = "open" /\ reqs[r].format \in PaperFormats
        /\ Logged(r, "pdf", ok)
        /\ sessions' = [sessions EXCEPT ![s].users = @ \cup {r}]
        /\ IF ok
           THEN /\ printed' = [printed EXCEPT ![r] = PdfOf(r, s)]
                /\ reqs' = [reqs EXCEPT ![r].pc = "close", ![r].pdf = PdfOf(r, s)]
                /\ res' = [res EXCEPT ![r] =
                        [@ EXCEPT !.n = @ + 1, !.status = 200,
                                  !.ctype = "application/pdf", !.kind = "pdf",
                                  !.payload = PdfOf(r, s)]]
           ELSE /\ Throw(r, "pdf failed")
                /\ UNCHANGED printed
    /\ UNCHANGED <<engineUp, inbox, browser>>

\* const pdf = await page.pdf({...}); return pdf  (then the finally block)
Pdf(r) ==
    /\ InRecipe(r, "print")
    /\ inbox[r].path \in {"/pdf", "/selftest"}
    /\ LET s == reqs[r].page IN
       \E ok \in BOOLEAN :
        /\ ok => sessions[s].state = "open" /\ reqs[r].format \in PaperFormats
        /\ Logged(r, "pdf", ok)
        /\ sessions' = [sessions EXCEPT ![s].users = @ \cup {r}]
        /\ IF ok
           THEN /\ printed' = [printed EXCEPT ![r] = PdfOf(r, s)]
                /\ reqs' = [reqs EXCEPT ![r].pc = "close", ![r].pdf = PdfOf(r, s)]
                /\ UNCHANGED res
           ELSE /\ Throw(r, "pdf failed")
                /\ UNCHANGED printed
    /\ UNCHANGED <<engineUp, inbox, browser>>

\* What page.screenshot captures: the page's document under the emulated media
\* (screen when none is emulated).
PngOf(r, s) ==
    [kind |-> "png", content |-> sessions[s].content, media |-> "screen",
     styles |-> sessions[s].styles, margin |-> NoProps, format |-> Undef]

\* const png = await page.screenshot(...); res.status(200).json({...})
Screenshot(r) ==
    /\ InRecipe(r, "print")
    /\ inbox[r].path = "/pdf-debug"
    /\ LET s == reqs[r].page IN
       \E ok \in BOOLEAN :
        /\ ok => sessions[s].state = "open"
        /\ Logged(r, "screenshot", ok)
        /\ sessions' = [sessions EXCEPT ![s].users = @ \cup {r}]
        /\ IF ok
           THEN /\ printed' = [printed EXCEPT ![r] = PngOf(r, s)]
                /\ reqs' = [reqs EXCEPT ![r].pc = "close"]
                /\ res' = [res EXCEPT ![r] =
                        [@ EXCEPT !.n = @ + 1, !.status = 200,
                                  !.ctype = "application/json",
                                  !.kind = "json-screenshot",
                                  !.payload = PngOf(r, s)]]
           ELSE /\ Throw(r, "screenshot failed")
                /\ UNCHANGED printed
    /\ UNCHANGED <<engineUp, inbox, browser>>

\* finally { if (browser) await browser.close(); }
\* In renderPdfFromHtml an error thrown by close replaces the pending one;
\* the function then returns or throws to its caller, which answers.  In
\* /pdf-debug the answer is already written and an error of close escapes
\* the handler.
Close(r) ==
    /\ InRecipe(r, "close")
    /\ LET s == browser[BrowserVar(r)] IN
       \E ok \in BOOLEAN :
        /\ Logged(r, "close", ok)
        /\ sessions' = [sessions EXCEPT ![s] =
                [@ EXCEPT !.state = IF ok THEN "closed" ELSE "closeFailed",
                          !.users = @ \cup {r}, !.closedBy = @ \cup {r}]]
        /\ IF inbox[r].path = "/pdf-debug"
           THEN /\ reqs' = [reqs EXCEPT ![r].pc = "done", ![r].unhandled = ~ok]
                /\ UNCHANGED res
           ELSE LET err == IF ok THEN reqs[r].err ELSE "close failed" IN
                /\ reqs' = [reqs EXCEPT ![r].pc = "done", ![r].err = err]
                /\ res' = [res EXCEPT ![r] = PdfResponse(r, err, reqs[r].pdf)]
    /\ UNCHANGED <<engineUp, inbox, browser, printed>>

Next ==
    \/ \E r \in Ids : Healthz(r)
    \/ \E r \in Ids : PostPdf(r)
    \/ \E r \in Ids : GetSelftest(r)
    \/ \E r \in Ids : PostPdfDebug(r)
    \/ \E r \in Ids : Launch(r)
    \/ \E r \in Ids : NewPage(r)
    \/ \E r \in Ids : EmulateMedia(r)
    \/ \E r \in Ids : AddVisibilityStyle(r)
    \/ \E r \in Ids : AddSystemFontStyle(r)
    \/ \E r \in Ids : SetContent(r)
    \/ \E r \in Ids : FontsReady(r)
    \/ \E r \in Ids : Pdf(r)
    \/ \E r \in Ids : Screenshot(r)
    \/ \E r \in Ids : Close(r)

\* Concurrent requests.
Spec == Init /\ [][Next]_vars

\* One request of any shape.
SpecRender == InitRender /\ [][Next]_vars

(***************************************************************************)
(* Properties.                                                             *)
(***************************************************************************)
Done(r) == reqs[r].pc = "done"

Received(r) == reqs[r].pc # "idle"

CallIdx(r) == 1..Len(calls[r])

Called(r, op) == \E i \in CallIdx(r) : calls[r][i].op = op

CallOk(r, op) == \E i \in CallIdx(r) : calls[r][i].op = op /\ calls[r][i].ok

CallFailed(r, op) == \E i \in CallIdx(r) : calls[r][i].op = op /\ ~calls[r][i].ok

Count(r, op) == Cardinality({i \in CallIdx(r) : calls[r][i].op = op})

Rendering(r) == inbox[r].path \in {"/pdf", "/selftest", "/pdf-debug"}

\* The html the client put in the body, undefined when there is no body.
SentHtml(r) == IF inbox[r].body.t = "undefined" THEN Undef ELSE inbox[r].body.html

\* C1: a POST /pdf or /pdf-debug whose body has no html, or whose html is not a
\* string or is the empty string, is answered 400 with an error field as soon
\* as it is handled, and never makes an engine call or launches a session.
C1_InvalidHtmlRejected ==
    \A r \in Ids :
        (/\ inbox[r].path \in {"/pdf", "/pdf-debug"}
         /\ (SentHtml(r) = Undef \/ SentHtml(r).t # "string" \/ SentHtml(r) = Str("")))
        => /\ calls[r] = << >>
           /\ sessions[r].state = "none"
           /\ browser[r] = NoSession
           /\ Received(r) =>
                /\ Done(r)
                /\ res[r].n = 1
                /\ res[r].status = 400
                /\ res[r].kind = "json-error"
                /\ res[r].error # ""

C1_Witness ==
    \E r \in Ids :
        /\ inbox[r].path = "/pdf-debug"
        /\ SentHtml(r) = Num("42")
        /\ Done(r)
        /\ res[r].status = 400

\* C2: when a rendering request has finished, its session, if the launch
\* succeeded, has had close called on it exactly once and is not open (it is
\* closed whenever that close returned), whichever step failed; if the launch
\* failed, close was never called.  Close is never called twice.
C2_SessionReleased ==
    \A r \in Ids :
        Rendering(r) =>
            /\ Count(r, "close") <= 1
            /\ Done(r) /\ CallOk(r, "launch") =>
                /\ Count(r, "close") = 1
                /\ sessions[r].state \in {"closed", "closeFailed"}
                /\ sessions[r].closedBy = {r}
                /\ CallOk(r, "close") => sessions[r].state = "closed"
            /\ ~CallOk(r, "launch") =>
                /\ Count(r, "close") = 0
                /\ sessions[r].state = "none"

\* A malformed format makes the print step fail; the session is closed.
C2_Witness ==
    \E r \in Ids :
        /\ inbox[r].path = "/pdf"
        /\ reqs[r].format = Str("Bogus")
        /\ Done(r)
        /\ CallFailed(r, "pdf")
        /\ sessions[r].state = "closed"
        /\ res[r].status = 500

\* The message each engine call throws with.
FailureMessages(op) ==
    CASE op = "launch" -> {"launch failed"}
      [] op = "newPage" -> {"newPage failed"}
      [] op = "emulateMedia" -> {"emulateMedia failed"}
      [] op \in {"addStyleTag:VISIBILITY_CSS", "addStyleTag:SYSTEM_FONT_CSS"} ->
            {"addStyleTag failed"}
      [] op = "setContent" -> {"setContent failed", "Timeout 30000ms exceeded"}
      [] op = "pdf" -> {"pdf failed"}
      [] op = "screenshot" -> {"screenshot failed"}
      [] op = "close" -> {"close failed"}
      [] OTHER -> {}

\* The steps 1-7 of the recipe whose failure is a render failure.
RenderSteps ==
    {"launch", "newPage", "emulateMedia", "addStyleTag:VISIBILITY_CSS",
     "addStyleTag:SYSTEM_FONT_CSS", "setContent", "pdf", "screenshot"}

RenderFailed(r) == \E op \in RenderSteps : CallFailed(r, op)

\* C3: a validated POST /pdf has no response while it renders and exactly one
\* when it has finished: 200 with Content-Type application/pdf, the
\* Content-Disposition `inline; filename="<filename>"` and the bytes the print
\* step returned, or 500 with a JSON {error, details} whose details is the
\* message of a failure of that request.  Once one of launch, page open, media
\* emulation, style injection, content load (timeout included) or print has
\* failed, the response is the 500 and carries no PDF header and no PDF byte.
C3_AllOrNothing ==
    \A r \in Ids :
        (inbox[r].path = "/pdf" /\ ~InvalidHtml(SentHtml(r))) =>
            /\ ~Done(r) => res[r] = NoRes
            /\ Done(r) =>
                /\ res[r].n = 1
                /\ \/ /\ res[r].status = 200
                      /\ res[r].ctype = "application/pdf"
                      /\ res[r].disp = "inline; filename=\"" \o reqs[r].filename.v \o "\""
                      /\ res[r].kind = "pdf"
                      /\ res[r].payload = printed[r]
                      /\ printed[r].kind = "pdf"
                      /\ res[r].error = ""
                   \/ /\ res[r].status = 500
                      /\ res[r].kind = "json-error"
                      /\ res[r].error = "PDF rendering failed"
                      /\ res[r].payload = NoSnap
                      /\ res[r].disp = ""
                      /\ \/ \E i \in CallIdx(r) :
                                /\ ~calls[r][i].ok
                                /\ res[r].details \in FailureMessages(calls[r][i].op)
                         \/ /\ \A i \in CallIdx(r) :
                                    calls[r][i].ok \/ calls[r][i].op = "evaluateHandle"
                            /\ res[r].details = "Invalid character in header content"
            /\ RenderFailed(r) =>
                /\ res[r].ctype # "application/pdf"
                /\ res[r].disp = ""
                /\ res[r].kind # "pdf"
                /\ res[r].payload = NoSnap
                /\ Done(r) => res[r].status = 500

\* The content load ran into the 30 s limit; the answer is the 500.
C3_Witness ==
    \E r \in Ids :
        /\ inbox[r].path = "/pdf"
        /\ Done(r)
        /\ CallFailed(r, "setContent")
        /\ res[r].status = 500
        /\ res[r].details = "Timeout 30000ms exceeded"
        /\ res[r].ctype = "application/json"

\* C4: every session is used and closed only by the request that launched it,
\* every request's browser and page bindings hold its own session or nothing,
\* and the document in a session's page, and in what a request printed, is
\* that request's html.
C4_Isolation ==
    \A r \in Ids :
        /\ sessions[r].users \subseteq {r}
        /\ sessions[r].closedBy \subseteq {r}
        /\ browser[r] \in {NoSession, r}
        /\ reqs[r].page \in {NoSession, r}
        /\ sessions[r].content \in {Undef, reqs[r].html}
        /\ printed[r].content \in {Undef, reqs[r].html}
        /\ sessions[r].state # "none" => CallOk(r, "launch")

\* Two requests with different documents, each loaded in its own open session.
C4_Witness ==
    \E r, q \in Ids :
        /\ r # q
        /\ sessions[r].state = "open" /\ sessions[q].state = "open"
        /\ sessions[r].content = Doc(r) /\ sessions[q].content = Doc(q)
        /\ sessions[r].content # sessions[q].content

\* C5: the margin printed by a POST /pdf has, on each edge, the value the
\* request's margin object gives that edge, and otherwise the default: top
\* 12mm, right 12mm, bottom 16mm, left 12mm.
C5_MarginMerge ==
    \A r \in Ids :
        (inbox[r].path = "/pdf" /\ printed[r].kind = "pdf") =>
            LET m == inbox[r].body.margin
                default == [e \in Edges |-> IF e = "bottom" THEN "16mm" ELSE "12mm"]
            IN \A e \in Edges :
                printed[r].margin[e] =
                    IF m.t = "object" /\ m.props[e] # Absent
                    THEN m.props[e] ELSE default[e]

\* margin: {top: "5mm"} prints 5mm, 12mm, 16mm, 12mm.
C5_Witness ==
    \E r \in Ids :
        /\ inbox[r].path = "/pdf"
        /\ inbox[r].body.margin = MarginObj([NoProps EXCEPT !["top"] = "5mm"])
        /\ printed[r].kind = "pdf"
        /\ printed[r].margin =
            [top |-> "5mm", right |-> "12mm", bottom |-> "16mm", left |-> "12mm"]

\* C6: a GET /healthz makes no engine call and, once handled, has the one
\* response 200 "ok", whatever the engine's state and the other requests'.
C6_HealthzAlwaysOk ==
    \A r \in Ids :
        inbox[r].path = "/healthz" =>
            /\ calls[r] = << >>
            /\ sessions[r].state = "none"
            /\ browser[r] = NoSession
            /\ Received(r) =>
                /\ Done(r)
                /\ res[r].n = 1
                /\ res[r].status = 200
                /\ res[r].text = "ok"

\* Healthz answered while the engine cannot launch and a render has failed.
C6_Witness ==
    \E r, q \in Ids :
        /\ inbox[r].path = "/healthz"
        /\ res[r].status = 200
        /\ ~engineUp
        /\ CallFailed(q, "launch")
        /\ res[q].status = 500

\* C7: whatever a render printed or captured had the visibility override among
\* the page's style tags, and the system-font override exactly when
\* forceSystemFonts was set.
C7_OverridesInEffect ==
    \A r \in Ids :
        printed[r].kind # "none" =>
            /\ VISIBILITY_CSS \in printed[r].styles
            /\ SYSTEM_FONT_CSS \in printed[r].styles <=> Truthy(reqs[r].forceSystemFonts)

\* The engine calls of the recipe, in order, for request r.
Recipe(r) ==
    <<"launch", "newPage", "emulateMedia", "addStyleTag:VISIBILITY_CSS">>
        \o (IF Truthy(reqs[r].forceSystemFonts)
            THEN <<"addStyleTag:SYSTEM_FONT_CSS">> ELSE << >>)
        \o <<"setContent", "evaluateHandle",
             IF inbox[r].path = "/pdf-debug" THEN "screenshot" ELSE "pdf">>

\* C8: the engine calls of a render are a prefix of the recipe (launch, page,
\* screen media, overrides, content load, font wait, print or capture),
\* followed by at most one close; a call follows a failed call only if the
\* failed one is the font wait or the follower is the close; the print or
\* capture step runs only after a successful content load, on a page whose
\* media is screen and whose document is the request's html.
C8_FixedSequence ==
    \A r \in Ids :
        Rendering(r) =>
            /\ \A i \in CallIdx(r) :
                /\ \/ i <= Len(Recipe(r)) /\ calls[r][i].op = Recipe(r)[i]
                   \/ i = Len(calls[r]) /\ calls[r][i].op = "close"
                /\ (~calls[r][i].ok /\ calls[r][i].op # "evaluateHandle") =>
                     \/ i = Len(calls[r])
                     \/ i + 1 = Len(calls[r]) /\ calls[r][i + 1].op = "close"
                /\ calls[r][i].op \in {"pdf", "screenshot"} =>
                     /\ \E j \in 1..(i - 1) : calls[r][j].op = "setContent" /\ calls[r][j].ok
                     /\ \E j \in 1..(i - 1) : calls[r][j].op = "emulateMedia" /\ calls[r][j].ok
                     /\ sessions[r].media = "screen"
                     /\ sessions[r].content = reqs[r].html
                     /\ sessions[r].page
            /\ printed[r].kind # "none" =>
                /\ printed[r].media = "screen"
                /\ printed[r].content = reqs[r].html

\* A whole render with forceSystemFonts: nine calls, close last.
C8_Witness ==
    \E r \in Ids :
        /\ inbox[r].path = "/pdf"
        /\ Done(r)
        /\ Len(calls[r]) = 9
        /\ \A i \in CallIdx(r) : calls[r][i].ok
        /\ calls[r][5].op = "addStyleTag:SYSTEM_FONT_CSS"
        /\ calls[r][9].op = "close"
        /\ sessions[r].baseURL = Str("http://assets/")
        /\ res[r].status = 200

\* C9: when the font-readiness wait threw, the render has moved on to the
\* print or capture step, which is the next call it makes; the answer follows
\* the rule that holds when the wait succeeded (200 exactly when print or
\* capture succeeded and, on /pdf and /selftest, the close returned and the
\* header was accepted), so a 500 always comes with another failure.
C9_FontWaitNotFatal ==
    \A r \in Ids :
        CallFailed(r, "evaluateHandle") =>
            /\ reqs[r].pc \in {"print", "close", "done"}
            /\ reqs[r].pc # "print" => (Called(r, "pdf") \/ Called(r, "screenshot"))
            /\ \A i \in CallIdx(r) :
                (calls[r][i].op = "evaluateHandle" /\ i < Len(calls[r])) =>
                    calls[r][i + 1].op \in {"pdf", "screenshot"}
            /\ (CallOk(r, "pdf") \/ CallOk(r, "screenshot")) =>
                /\ printed[r].content = reqs[r].html
                /\ printed[r].format \in {reqs[r].format, Undef}
            /\ Done(r) =>
                /\ res[r].n = 1
                /\ res[r].status \in {200, 500}
                /\ res[r].status = 200 <=>
                    IF inbox[r].path = "/pdf-debug"
                    THEN CallOk(r, "screenshot")
                    ELSE /\ CallOk(r, "pdf")
                         /\ CallOk(r, "close")
                         /\ HeaderValueOk(reqs[r].filename)
                /\ res[r].status = 200 => res[r].payload = printed[r]

\* The wait threw and the PDF was delivered nevertheless.
C9_Witness ==
    \E r \in Ids :
        /\ inbox[r].path = "/pdf"
        /\ CallFailed(r, "evaluateHandle")
        /\ Done(r)
        /\ res[r].status = 200
        /\ res[r].kind = "pdf"

\* C10: on /pdf and /selftest nothing of the response (status, header, body)
\* is written while the request's session is open: when the response exists
\* the session was never launched or close has been called on it.  When the
\* print step succeeded and the close threw, the answer is 500 without PDF bytes.
C10_CloseBeforeResponse ==
    \A r \in Ids :
        inbox[r].path \in {"/pdf", "/selftest"} =>
            /\ res[r] # NoRes =>
                /\ sessions[r].state \in {"none", "closed", "closeFailed"}
                /\ CallOk(r, "launch") => Called(r, "close")
            /\ (Done(r) /\ CallOk(r, "pdf") /\ CallFailed(r, "close")) =>
                /\ res[r].status = 500
                /\ res[r].kind = "json-error"
                /\ res[r].payload = NoSnap
                /\ res[r].details = "close failed"

\* Printed, then the close threw: 500.
C10_Witness ==
    \E r \in Ids :
        /\ inbox[r].path = "/selftest"
        /\ Done(r)
        /\ CallOk(r, "pdf")
        /\ CallFailed(r, "close")
        /\ res[r].status = 500
        /\ printed[r].kind = "pdf"

====
